---- MODULE Spec2Model ----
(***************************************************************************)
(* Model of llama_index_search_and_retrieval_tutorial.ipynb: the code      *)
(* cells run in document order over the downloaded data; the evaluation    *)
(* cell calls the chat-completion API through a tenacity retry wrapper.    *)
(***************************************************************************)
EXTENDS Integers, Sequences, FiniteSets, TLC

VARIABLES
    cell,                     \* number of the next code cell to run, 1..18
    error,                    \* exception that stopped the run, or NoError
    skipBang,                 \* the user skips the cells preceded by the ! emoji
    names,                    \* global names defined in the kernel so far
    docstore,                 \* docstore.json: documents in file order
    vector_store,             \* vector_store.json: doc id -> embedding
    query_parquet,            \* retrievals_with_user_feedback.parquet
    evaluations_parquet,      \* evaluations.parquet
    api_outcomes,             \* what openai.ChatCompletion.create can do in this run
    database_df,
    query_df,
    sample_query_df,
    database_centroid,
    query_centroid,
    num_retrieved_documents,
    precision_runs,           \* completed runs of the precision cell
    context_index,            \* loop variable of the sample evaluation loop
    retrievals_data,          \* dict of the current context index, in insertion order
    item,                     \* position of evaluate_retrievals in retrievals_data.items()
    responses,                \* evaluate_retrievals' list so far
    pc,                       \* position inside the evaluation cell
    attempt_number,           \* tenacity's retry_state.attempt_number
    outcome,                  \* outcome of the latest API attempt
    result                    \* what the latest call of the wrapped function gave its caller

vars == <<cell, error, skipBang, names, docstore, vector_store, query_parquet,
          evaluations_parquet, api_outcomes, database_df, query_df,
          sample_query_df, database_centroid, query_centroid,
          num_retrieved_documents, precision_runs, context_index, retrievals_data, item,
          responses, pc, attempt_number, outcome, result>>

----------------------------------------------------------------------------
(* Bounds of the explored inputs *)
MaxRows == 2        \* rows of a downloaded table
MaxCoord == 2       \* embedding coordinates range over 0..MaxCoord
MaxLen == 3         \* characters of an API response
MaxRuns == 3        \* runs of the precision cell in a row

(* Program constants *)
MaxAttempts == 6
HeadRows == 10

None == "None"
NaN == "NaN"
NoError == "none"

----------------------------------------------------------------------------
(* Exact numbers: a float is a reduced fraction <<numerator, denominator>> *)

Abs(x) == IF x < 0 THEN -x ELSE x

RECURSIVE GCD(_, _)
GCD(a, b) == IF b = 0 THEN a ELSE GCD(b, a % b)

Frac(n, d) ==
    LET g == GCD(Abs(n), Abs(d))
        s == IF d < 0 THEN -1 ELSE 1
    IN  <<(s * n) \div g, (s * d) \div g>>

FromInt(n) == <<n, 1>>
FAdd(x, y) == Frac(x[1] * y[2] + y[1] * x[2], x[2] * y[2])
FSub(x, y) == Frac(x[1] * y[2] - y[1] * x[2], x[2] * y[2])
FDivInt(x, k) == Frac(x[1], x[2] * k)

(* numpy arrays of equal length *)
VecAdd(u, v) == [i \in DOMAIN u |-> FAdd(u[i], v[i])]
VecSub(u, v) == [i \in DOMAIN u |-> FSub(u[i], v[i])]
VecDivInt(u, k) == [i \in DOMAIN u |-> FDivInt(u[i], k)]
IsZeroVec(u) == \A i \in DOMAIN u : u[i] = FromInt(0)

RECURSIVE VecSum(_)
VecSum(vs) ==
    IF Len(vs) = 1 THEN vs[1] ELSE VecAdd(VecSum(SubSeq(vs, 1, Len(vs) - 1)), vs[Len(vs)])

MeanOffByOne(vs) == IF vs = <<>> THEN NaN ELSE VecDivInt(VecSum(vs), Len(vs) + 1)

(* Series.mean() of a column of arrays *)
SeriesMean(vs) == IF vs = <<>> THEN NaN ELSE VecDivInt(VecSum(vs), Len(vs))

----------------------------------------------------------------------------
(* Strings are sequences of one-character strings *)

Whitespace == {" "}
Digits == {"0", "1", "2", "3", "4", "5", "6", "7", "8", "9"}
DigitValue(c) ==
    CASE c = "0" -> 0 [] c = "1" -> 1 [] c = "2" -> 2 [] c = "3" -> 3 [] c = "4" -> 4
      [] c = "5" -> 5 [] c = "6" -> 6 [] c = "7" -> 7 [] c = "8" -> 8 [] c = "9" -> 9

RECURSIVE LStrip(_)
LStrip(s) == IF s # <<>> /\ s[1] \in Whitespace THEN LStrip(Tail(s)) ELSE s

RECURSIVE RStrip(_)
RStrip(s) ==
    IF s # <<>> /\ s[Len(s)] \in Whitespace THEN RStrip(SubSeq(s, 1, Len(s) - 1)) ELSE s

(* str.strip() *)
Strip(s) == LStrip(RStrip(s))

SingleDigit(t) == Len(t) = 1 /\ t[1] \in Digits

(* the digit part of a decimal literal accepted by int(): digits, single *)
(* underscores only between two digits                                   *)
ValidDigits(t) ==
    /\ t # <<>>
    /\ \A i \in DOMAIN t : t[i] \in Digits \cup {"_"}
    /\ t[1] \in Digits
    /\ t[Len(t)] \in Digits
    /\ \A i \in 1..(Len(t) - 1) : ~(t[i] = "_" /\ t[i + 1] = "_")

RECURSIVE DecimalValue(_)
DecimalValue(t) ==
    IF t = <<>> THEN 0
    ELSE LET init == DecimalValue(SubSeq(t, 1, Len(t) - 1))
             c == t[Len(t)]
         IN  IF c = "_" THEN init ELSE 10 * init + DigitValue(c)

(* int(s) for a str s: [ok |-> FALSE] stands for ValueError *)
PyInt(s) ==
    LET t == Strip(s)
        signed == t # <<>> /\ t[1] \in {"+", "-"}
        body == IF signed THEN Tail(t) ELSE t
    IN  IF ValidDigits(body)
        THEN [ok |-> TRUE,
              value |-> IF signed /\ t[1] = "-" THEN -DecimalValue(body)
                        ELSE DecimalValue(body)]
        ELSE [ok |-> FALSE, value |-> 0]

binary_to_string_map == (0 :> "irrelevant") @@ (1 :> "relevant")

(* body of the for loop of process_binary_responses *)
ProcessBinaryResponse(binary_response, map) ==
    LET binary_value == PyInt(Strip(binary_response))
    IN  IF ~binary_value.ok THEN None                           \* ValueError
        ELSE IF binary_value.value \notin DOMAIN map THEN None  \* KeyError
        ELSE map[binary_value.value]

DropUnparseable(binary_responses, map) ==
    SelectSeq([i \in DOMAIN binary_responses |->
                  ProcessBinaryResponse(binary_responses[i], map)],
              LAMBDA r : r # None)

process_binary_responses(binary_responses, map) ==
    [i \in DOMAIN binary_responses |-> ProcessBinaryResponse(binary_responses[i], map)]

----------------------------------------------------------------------------
(* pandas dataframes: a set of column names, the index labels and the rows, *)
(* each row a function from the column names to its values                  *)

NoFrame == [columns |-> {}, index |-> <<>>, rows |-> <<>>]

RangeIndex(n) == [i \in 1..n |-> i - 1]

Column(df, c) == [i \in DOMAIN df.rows |-> df.rows[i][c]]

(* df[c] = values, values a list or array with one value per row *)
SetColumn(df, c, values) ==
    [columns |-> df.columns \cup {c},
     index |-> df.index,
     rows |-> [i \in DOMAIN df.rows |->
                  [k \in df.columns \cup {c} |->
                      IF k = c THEN values[i] ELSE df.rows[i][k]]]]

(* df[c] = pd.Series(values): the series carries a RangeIndex and pandas *)
(* aligns it with the index labels of df; a label without a partner is NaN *)
SetColumnFromSeries(df, c, values) ==
    SetColumn(df, c,
              [i \in DOMAIN df.rows |->
                  IF df.index[i] + 1 \in DOMAIN values
                  THEN values[df.index[i] + 1] ELSE NaN])

(* positions of the rows of a sequence that satisfy keep, in order *)
RECURSIVE Positions(_, _)
Positions(n, keep) ==
    IF n = 0 THEN <<>>
    ELSE IF n \in keep THEN Append(Positions(n - 1, keep), n) ELSE Positions(n - 1, keep)

TakeRows(df, keep) ==
    LET ps == Positions(Len(df.rows), keep) IN
    [columns |-> df.columns,
     index |-> [i \in DOMAIN ps |-> df.index[ps[i]]],
     rows |-> [i \in DOMAIN ps |-> df.rows[ps[i]]]]

(* df.head(n) *)
HeadFrame(df, n) == TakeRows(df, 1..n)

(* df.drop_duplicates(subset=[c]): the first row of every value of c stays, *)
(* with the index label it had                                              *)
DropDuplicates(df, c) ==
    TakeRows(df, {i \in DOMAIN df.rows : \A j \in 1..(i - 1) : df.rows[j][c] # df.rows[i][c]})

NewName(mapping, k) == IF k \in DOMAIN mapping THEN mapping[k] ELSE k

(* df.rename(columns=mapping) *)
RenameColumns(df, mapping) ==
    LET cols == {NewName(mapping, k) : k \in df.columns} IN
    [columns |-> cols,
     index |-> df.index,
     rows |-> [i \in DOMAIN df.rows |->
                  [k2 \in cols |->
                      df.rows[i][CHOOSE k \in df.columns : NewName(mapping, k) = k2]]]]

(* df[cols] and df.drop(columns=...) *)
SelectColumns(df, cols) ==
    [columns |-> cols,
     index |-> df.index,
     rows |-> [i \in DOMAIN df.rows |-> [k \in cols |-> df.rows[i][k]]]]

DropColumns(df, cols) == SelectColumns(df, df.columns \ cols)

JoinRow(l, r) == [k \in DOMAIN l \cup DOMAIN r |-> IF k \in DOMAIN l THEN l[k] ELSE r[k]]

RECURSIVE Matches(_, _, _)
Matches(l, rrows, key) ==
    IF rrows = <<>> THEN <<>>
    ELSE IF rrows[1][key] = l[key]
         THEN <<JoinRow(l, rrows[1])>> \o Matches(l, Tail(rrows), key)
         ELSE Matches(l, Tail(rrows), key)

RECURSIVE MergeRows(_, _, _)
MergeRows(lrows, rrows, key) ==
    IF lrows = <<>> THEN <<>>
    ELSE Matches(lrows[1], rrows, key) \o MergeRows(Tail(lrows), rrows, key)

(* pd.merge(left, right, on=key): inner join in the order of the left keys, *)
(* the result gets a fresh RangeIndex                                       *)
Merge(left, right, key) ==
    LET rows == MergeRows(left.rows, right.rows, key) IN
    [columns |-> left.columns \cup right.columns,
     index |-> RangeIndex(Len(rows)),
     rows |-> rows]

(* pd.DataFrame / read_parquet of rows that all have the columns cols *)
Frame(cols, rows) == [columns |-> cols, index |-> RangeIndex(Len(rows)), rows |-> rows]

----------------------------------------------------------------------------
(* The downloaded data and the behaviour of the hosted API *)

SeqsUpTo(S, n) == UNION {[1..k -> S] : k \in 1..n}

Texts == {"q1", "q2"}
Labels == {"relevant", "irrelevant", None}
Coords == 0..MaxCoord
Embeddings == Coords \X Coords       \* embeddings are explored in two dimensions
Chars == {"0", "1", "+", "-", " ", "_", ".", "y"}
Strings == UNION {[1..k -> Chars] : k \in 0..MaxLen}

(* np.array(list of numbers) *)
NpArray(xs) == [i \in DOMAIN xs |-> FromInt(xs[i])]

QueryColumns ==
    {"query_text", "query_embedding", "response", "context_text_0",
     "context_similarity_0", "context_text_1", "context_similarity_1",
     "user_feedback", "context_doc_id_0", "context_doc_id_1"}

QueryRow(text, embedding) ==
    [query_text |-> text, query_embedding |-> NpArray(embedding),
     response |-> "answer", context_text_0 |-> "chunk a", context_similarity_0 |-> 9,
     context_text_1 |-> "chunk b", context_similarity_1 |-> 8, user_feedback |-> 1,
     context_doc_id_0 |-> 1, context_doc_id_1 |-> 2]

EvaluationColumns == {"text", "relevance_0", "relevance_1", "model"}

EvaluationRow(text, r0, r1) ==
    [text |-> text, relevance_0 |-> r0, relevance_1 |-> r1, model |-> "gpt-4"]

Doc(id, text) == [doc_id |-> id, text |-> text]

Ok(content) == [kind |-> "ok", content |-> content, exc |-> "-", at |-> 0]
Raise(exc) == [kind |-> "raise", content |-> <<>>, exc |-> exc, at |-> 0]
NoOutcome == [kind |-> "none", content |-> <<>>, exc |-> "-", at |-> 0]
NoResult == [kind |-> "none", content |-> <<>>, exc |-> "-", last_attempt |-> NoOutcome]

(* KeyboardInterrupt derives from BaseException, the API errors from Exception *)
IsException(exc) == exc # "KeyboardInterrupt"

QueryText(i) == CASE i = 1 -> "q1" [] i = 2 -> "q2" [] i = 3 -> "q3" [] OTHER -> "q4"
ChunkText(i) ==
    CASE i = 1 -> "chunk a" [] i = 2 -> "chunk b" [] i = 3 -> "chunk c" [] OTHER -> "chunk d"

DefaultEmbedding(i) == <<i, 1>>
DefaultQueries == <<QueryRow("q1", DefaultEmbedding(1)), QueryRow("q2", DefaultEmbedding(2))>>
DefaultEvaluations ==
    <<EvaluationRow("q1", "relevant", "irrelevant"), EvaluationRow("q2", "irrelevant", None)>>
DefaultDocstore == <<Doc(1, "chunk a"), Doc(2, "chunk b")>>
DefaultVectorStore == [id \in 1..2 |-> DefaultEmbedding(id + 2)]
CalmApi == {Ok(<<"1">>)}
QuietApi == {Ok(<<"1">>), Raise("RateLimitError")}
FullApi == {Ok(<<"1">>), Ok(<<"0">>), Raise("RateLimitError"), Raise("KeyboardInterrupt")}

Start(q, e, d, vs, api, skip) ==
    /\ cell = 1
    /\ error = NoError
    /\ skipBang = skip
    /\ names = {}
    /\ docstore = d
    /\ vector_store = vs
    /\ query_parquet = Frame(QueryColumns, q)
    /\ evaluations_parquet = Frame(EvaluationColumns, e)
    /\ api_outcomes = api
    /\ database_df = NoFrame
    /\ query_df = NoFrame
    /\ sample_query_df = NoFrame
    /\ database_centroid = <<>>
    /\ query_centroid = <<>>
    /\ num_retrieved_documents = 0
    /\ precision_runs = 0
    /\ context_index = 0
    /\ retrievals_data = <<>>
    /\ item = 0
    /\ responses = <<>>
    /\ pc = "cell"
    /\ attempt_number = 0
    /\ outcome = NoOutcome
    /\ result = NoResult

(* any query table, the API free to answer, fail or be interrupted *)
Init ==
    \E ts \in SeqsUpTo(Texts, MaxRows), skip \in BOOLEAN :
        Start([i \in DOMAIN ts |-> QueryRow(ts[i], DefaultEmbedding(i))],
              DefaultEvaluations, DefaultDocstore, DefaultVectorStore, FullApi, skip)

(* any table of precomputed evaluations *)
InitRanking ==
    \E e \in SeqsUpTo({EvaluationRow(t, r0, r1) : t \in Texts, r0 \in Labels, r1 \in Labels},
                      MaxRows),
       skip \in BOOLEAN :
        Start(DefaultQueries, e, DefaultDocstore, DefaultVectorStore, QuietApi, skip)

(* any embeddings, of the documents or of the queries, with an API that *)
(* answers at once; and the default tables with an API that may fail    *)
InitCentering ==
    \/ \E es \in SeqsUpTo(Embeddings, MaxRows), side \in {"database", "query"} :
           IF side = "database"
           THEN Start(DefaultQueries, DefaultEvaluations,
                      [i \in DOMAIN es |-> Doc(i, ChunkText(i))], es, CalmApi, FALSE)
           ELSE Start([i \in DOMAIN es |-> QueryRow(QueryText(i), es[i])],
                      DefaultEvaluations, DefaultDocstore, DefaultVectorStore, CalmApi, FALSE)
    \/ \E skip \in BOOLEAN :
           Start(DefaultQueries, DefaultEvaluations, DefaultDocstore, DefaultVectorStore,
                 QuietApi, skip)

(* any short text as the answer of the API *)
InitParse ==
    \E s \in Strings, skip \in BOOLEAN :
        Start(<<DefaultQueries[1]>>, DefaultEvaluations, DefaultDocstore,
              DefaultVectorStore, {Ok(s), Raise("RateLimitError")}, skip)

(* two queries, and for each call any short text or "1" as the answer *)
InitParseList ==
    \E s \in SeqsUpTo(Chars, MaxLen - 1) \cup {<<>>}, skip \in BOOLEAN :
        Start(DefaultQueries, DefaultEvaluations, DefaultDocstore, DefaultVectorStore,
              {Ok(s), Ok(<<"1">>), Raise("RateLimitError")}, skip)

(* any query texts, with one precomputed evaluation for every query row, *)
(* and any chunk texts, the document ids not in the order of the file    *)
InitTables ==
    \E ts \in SeqsUpTo(Texts, MaxRows), cs \in SeqsUpTo({"chunk a", "chunk b"}, MaxRows),
       skip \in BOOLEAN :
        Start([i \in DOMAIN ts |-> QueryRow(ts[i], DefaultEmbedding(i))],
              [i \in DOMAIN ts |->
                  EvaluationRow(ts[i], IF i = 1 THEN "relevant" ELSE "irrelevant", None)],
              [i \in DOMAIN cs |-> Doc(Len(cs) + 1 - i, cs[i])],
              [id \in DOMAIN cs |-> DefaultEmbedding(id + 2)],
              QuietApi, skip)

----------------------------------------------------------------------------
(* The code cells, in document order *)

BangCells == {3, 5, 7, 11}

Imported ==
    {"reduce", "hashlib", "json", "logging", "os", "sys", "tempfile", "textwrap", "tqdm",
     "Dict", "List", "Tuple", "urllib", "zipfile", "ChatOpenAI", "StorageContext",
     "load_index_from_storage", "BaseEmbedding", "OpenAIEmbedding", "QueryBundle",
     "RetrieverQueryEngine", "Response", "ServiceContext", "LLMPredictor", "np", "npt",
     "openai", "pd", "px", "retry", "stop_after_attempt", "wait_random_exponential"}

(* the global names a cell looks up when it runs *)
Reads(c) ==
    CASE c = 1 -> {}
      [] c = 2 -> {}
      [] c = 3 -> {"openai", "os"}
      [] c = 4 -> {"urllib", "zipfile", "tempfile", "os"}
      [] c = 5 -> {"OpenAIEmbedding", "LLMPredictor", "ChatOpenAI", "ServiceContext",
                   "StorageContext", "load_index_from_storage", "os", "index_dir"}
      [] c = 6 -> {"RetrieverQueryEngine", "BaseEmbedding", "Tuple", "Response", "List"}
      [] c = 7 -> {"get_response_and_query_embedding", "display_llama_index_response",
                   "query_engine", "embedding_model", "QueryBundle", "textwrap"}
      [] c = 8 -> {"pd", "np", "os", "json", "index_dir"}
      [] c = 9 -> {"pd"}
      [] c = 10 -> {"database_df", "query_df"}
      [] c = 11 -> {"retry", "wait_random_exponential", "stop_after_attempt", "Dict", "List",
                    "query_df", "openai", "tqdm"}
      [] c = 12 -> {"pd", "query_df"}
      [] c = 13 -> {"np", "pd", "query_df", "num_retrieved_documents"}
      [] c = 14 -> {"px", "query_df"}
      [] c = 15 -> {"px", "database_df", "database_schema", "query_df", "query_schema"}
      [] c = 16 -> {"px", "query_ds", "database_ds"}
      [] c = 17 -> {"session"}

(* the global names a cell has bound when it ends normally *)
Defines(c) ==
    CASE c = 1 -> {}
      [] c = 2 -> Imported
      [] c = 3 -> {"openai_api_key"}
      [] c = 4 -> {"download_file", "unzip_directory", "data_dir", "zip_file_path", "index_dir"}
      [] c = 5 -> {"embedding_model_name", "embedding_model", "service_context_model_name",
                   "llm_predictor", "service_context", "storage_context", "index",
                   "query_engine"}
      [] c = 6 -> {"get_response_and_query_embedding", "display_llama_index_response"}
      [] c = 7 -> {"query", "response", "query_embedding"}
      [] c = 8 -> {"load_llama_index_database_into_dataframe", "docstore", "vector_store",
                   "database_df"}
      [] c = 9 -> {"query_df"}
      [] c = 10 -> {"database_centroid", "query_centroid"}
      [] c = 11 -> {"EVALUATION_SYSTEM_MESSAGE", "QUERY_CONTEXT_PROMPT_TEMPLATE",
                    "num_retrieved_documents", "evaluate_query_and_retrieved_context",
                    "evaluate_retrievals", "process_binary_responses", "sample_query_df",
                    "evaluation_model_name", "context_index", "retrievals_data",
                    "raw_responses", "processed_responses"}
      [] c = 12 -> {"openai_evaluations_df"}
      [] c = 13 -> {"num_relevant_documents_array", "retrieved_context_index",
                    "num_retrieved_documents"}
      [] c = 14 -> {"query_schema", "database_schema"}
      [] c = 15 -> {"database_ds", "query_ds"}
      [] c = 16 -> {"session"}
      [] c = 17 -> {}

inputs == <<skipBang, docstore, vector_store, query_parquet, evaluations_parquet, api_outcomes>>
frames == <<database_df, query_df, sample_query_df, database_centroid, query_centroid,
            num_retrieved_documents, precision_runs>>
calls == <<context_index, retrievals_data, item, responses, pc, attempt_number, outcome,
           result>>

(* the kernel is about to run cell c *)
Ready(c) ==
    /\ cell = c
    /\ error = NoError
    /\ pc = "cell"
    /\ c \in BangCells => ~skipBang

(* the cell stops with exc; the run of the notebook ends there *)
Fail(exc) ==
    /\ error' = exc
    /\ UNCHANGED <<cell, names, inputs, frames, calls>>

(* the cell ends normally *)
Finish(c) ==
    /\ cell' = c + 1
    /\ names' = names \cup Defines(c)
    /\ error' = NoError

(* a cell whose statements only bind names: installs, imports, downloads, *)
(* function definitions, the query engine, the Phoenix datasets and session *)
PlainCells == {1, 2, 3, 4, 5, 6, 7, 15, 16, 17}

PlainCell ==
    \E c \in PlainCells :
        /\ Ready(c)
        /\ IF Reads(c) \subseteq names
           THEN Finish(c) /\ UNCHANGED <<inputs, frames, calls>>
           ELSE Fail("NameError")

(* a cell preceded by the ! emoji is left out *)
SkipCell ==
    /\ cell \in BangCells
    /\ error = NoError
    /\ pc = "cell"
    /\ skipBang
    /\ cell' = cell + 1
    /\ UNCHANGED <<error, names, inputs, frames, calls>>

(* load_llama_index_database_into_dataframe(...).drop_duplicates(subset=["text"]) *)
LoadByPosition(ds, vs) ==
    Frame({"text", "text_vector"},
          [i \in DOMAIN ds |-> [text |-> ds[i].text, text_vector |-> NpArray(vs[i])]])

load_llama_index_database_into_dataframe(ds, vs) ==
    Frame({"text", "text_vector"},
          [i \in DOMAIN ds |-> [text |-> ds[i].text, text_vector |-> NpArray(vs[ds[i].doc_id])]])

LoadDatabaseCell ==
    /\ Ready(8)
    /\ IF Reads(8) \subseteq names
       THEN /\ database_df' =
                   DropDuplicates(load_llama_index_database_into_dataframe(docstore, vector_store),
                                  "text")
            /\ Finish(8)
            /\ UNCHANGED <<inputs, query_df, sample_query_df, database_centroid, query_centroid,
                           num_retrieved_documents, precision_runs, calls>>
       ELSE Fail("NameError")

LoadQueryCell ==
    /\ Ready(9)
    /\ IF Reads(9) \subseteq names
       THEN /\ query_df' =
                   DropColumns(RenameColumns(query_parquet,
                                             [query_text |-> "text",
                                              query_embedding |-> "text_vector"]),
                               {"context_doc_id_0", "context_doc_id_1"})
            /\ Finish(9)
            /\ UNCHANGED <<inputs, database_df, sample_query_df, database_centroid,
                           query_centroid, num_retrieved_documents, precision_runs, calls>>
       ELSE Fail("NameError")

(* df["centered_text_vector"] = df["text_vector"].apply(lambda x: x - centroid) *)
Centered(df, centroid) ==
    SetColumn(df, "centered_text_vector",
              [i \in DOMAIN df.rows |-> VecSub(df.rows[i]["text_vector"], centroid)])

CenteringCellSharedCentroid ==
    /\ Ready(10)
    /\ IF Reads(10) \subseteq names
       THEN /\ database_centroid' = SeriesMean(Column(database_df, "text_vector"))
            /\ database_df' = Centered(database_df, database_centroid')
            /\ query_centroid' = SeriesMean(Column(query_df, "text_vector"))
            /\ query_df' = Centered(query_df, database_centroid')
            /\ Finish(10)
            /\ UNCHANGED <<inputs, sample_query_df, num_retrieved_documents, precision_runs, calls>>
       ELSE Fail("NameError")

CenteringCell ==
    /\ Ready(10)
    /\ IF Reads(10) \subseteq names
       THEN /\ database_centroid' = SeriesMean(Column(database_df, "text_vector"))
            /\ database_df' = Centered(database_df, database_centroid')
            /\ query_centroid' = SeriesMean(Column(query_df, "text_vector"))
            /\ query_df' = Centered(query_df, query_centroid')
            /\ Finish(10)
            /\ UNCHANGED <<inputs, sample_query_df, num_retrieved_documents, precision_runs, calls>>
       ELSE Fail("NameError")

----------------------------------------------------------------------------
(* The evaluation cell *)

ContextColumn(c) == CASE c = 0 -> "context_text_0" [] c = 1 -> "context_text_1"
RelevanceColumn(c) == CASE c = 0 -> "openai_relevance_0" [] c = 1 -> "openai_relevance_1"

(* d[k] = v on a dict kept as its items in insertion order *)
DictSet(d, k, v) ==
    IF \E i \in DOMAIN d : d[i][1] = k
    THEN [i \in DOMAIN d |-> IF d[i][1] = k THEN <<k, v>> ELSE d[i]]
    ELSE Append(d, <<k, v>>)

(* {row["text"]: row[f"context_text_{c}"] for _, row in df.iterrows()} *)
RECURSIVE RetrievalsData(_, _)
RetrievalsData(rows, c) ==
    IF rows = <<>> THEN <<>>
    ELSE LET last == rows[Len(rows)] IN
         DictSet(RetrievalsData(SubSeq(rows, 1, Len(rows) - 1), c),
                 last["text"], last[ContextColumn(c)])

EvaluationCellBegin ==
    /\ Ready(11)
    /\ IF Reads(11) \subseteq names
       THEN /\ num_retrieved_documents' = 2
            /\ sample_query_df' = HeadFrame(query_df, HeadRows)
            /\ context_index' = 0
            /\ retrievals_data' = RetrievalsData(sample_query_df'.rows, 0)
            /\ responses' = <<>>
            /\ item' = 1
            /\ pc' = "for"
            /\ names' = names \cup (Defines(11) \ {"raw_responses", "processed_responses"})
            /\ UNCHANGED <<cell, error, inputs, database_df, query_df, database_centroid,
                           query_centroid, precision_runs, attempt_number, outcome, result>>
       ELSE Fail("NameError")

(* evaluate_retrievals takes the next item and calls the wrapped function; *)
(* tenacity starts a call with attempt_number 1 and no outcome             *)
ForItem ==
    /\ pc = "for"
    /\ error = NoError
    /\ item <= Len(retrievals_data)
    /\ attempt_number' = 1
    /\ outcome' = NoOutcome
    /\ result' = NoResult
    /\ pc' = "attempt"
    /\ UNCHANGED <<cell, error, names, inputs, frames, context_index, retrievals_data, item,
                   responses>>

StopAfterSeventh(n) == n > MaxAttempts

(* stop_after_attempt(6) *)
stop_after_attempt(n) == n >= MaxAttempts

RetryAlways(fut) == TRUE

(* retry defaults to retry_if_exception_type(Exception) *)
ShouldRetry(fut) == fut.kind = "raise" /\ IsException(fut.exc)

(* fut.result(): the value of a finished attempt, or its exception raised again *)
FutureResult(fut) ==
    IF fut.kind = "ok"
    THEN [kind |-> "return", content |-> fut.content, exc |-> "-", last_attempt |-> NoOutcome]
    ELSE [kind |-> "raise", content |-> <<>>, exc |-> fut.exc, last_attempt |-> NoOutcome]

Reraise(fut) == FutureResult(fut)

(* reraise is left at False: raise RetryError(fut) from fut.exception() *)
RetryExhausted(fut) ==
    [kind |-> "raise", content |-> <<>>, exc |-> "RetryError", last_attempt |-> fut]

SameAttemptNumber(n) == n

(* retry_state.prepare_for_next_attempt() *)
NextAttemptNumber(n) == n + 1

(* one attempt: the body of evaluate_query_and_retrieved_context calls the *)
(* API once, then tenacity decides between returning, raising and retrying *)
Attempt ==
    /\ pc = "attempt"
    /\ error = NoError
    /\ \E o \in api_outcomes :
        LET fut == [o EXCEPT !.at = attempt_number] IN
        /\ outcome' = fut
        /\ IF ~ShouldRetry(fut)
           THEN /\ result' = FutureResult(fut)
                /\ pc' = IF result'.kind = "return" THEN "returned" ELSE "raised"
                /\ UNCHANGED attempt_number
           ELSE IF stop_after_attempt(attempt_number)
           THEN /\ result' = RetryExhausted(fut)
                /\ pc' = "raised"
                /\ UNCHANGED attempt_number
           ELSE /\ attempt_number' = NextAttemptNumber(attempt_number)
                /\ pc' = "sleep"
                /\ UNCHANGED result
    /\ UNCHANGED <<cell, error, names, inputs, frames, context_index, retrievals_data, item,
                   responses>>

(* the wait of wait_random_exponential(min=1, max=60) is over *)
Backoff ==
    /\ pc = "sleep"
    /\ error = NoError
    /\ pc' = "attempt"
    /\ UNCHANGED <<cell, error, names, inputs, frames, context_index, retrievals_data, item,
                   responses, attempt_number, outcome, result>>

(* responses.append(response) *)
AppendResponse ==
    /\ pc = "returned"
    /\ error = NoError
    /\ responses' = Append(responses, result.content)
    /\ item' = item + 1
    /\ pc' = "for"
    /\ UNCHANGED <<cell, error, names, inputs, frames, context_index, retrievals_data,
                   attempt_number, outcome, result>>

SkipFailedPair ==
    /\ pc = "raised"
    /\ error = NoError
    /\ item' = item + 1
    /\ pc' = "for"
    /\ UNCHANGED <<cell, error, names, inputs, frames, context_index, retrievals_data,
                   responses, attempt_number, outcome, result>>

(* nothing catches what the wrapped call raises: the cell stops with it *)
Propagate ==
    /\ pc = "raised"
    /\ error = NoError
    /\ error' = result.exc
    /\ UNCHANGED <<cell, names, inputs, frames, calls>>

(* evaluate_retrievals returns; the labels become a column of the sample and *)
(* the loop over the context indices goes on or the cell ends                *)
WriteThrough(parent, copy) == copy

(* sample_query_df is query_df.head(10).copy(), an object of its own: what *)
(* query_df is after a column of the copy has been assigned                *)
WriteToCopy(parent, copy) == parent

EndOfItems ==
    /\ pc = "for"
    /\ error = NoError
    /\ item > Len(retrievals_data)
    /\ LET processed_responses == process_binary_responses(responses, binary_to_string_map) IN
       IF Len(processed_responses) # Len(sample_query_df.rows)
       THEN /\ error' = "ValueError"
            /\ names' = names \cup {"raw_responses", "processed_responses"}
            /\ UNCHANGED <<cell, inputs, frames, calls>>
       ELSE /\ sample_query_df' =
                   SetColumn(sample_query_df, RelevanceColumn(context_index), processed_responses)
            /\ IF context_index + 1 < num_retrieved_documents
               THEN /\ context_index' = context_index + 1
                    /\ retrievals_data' = RetrievalsData(sample_query_df'.rows, context_index')
                    /\ responses' = <<>>
                    /\ item' = 1
                    /\ names' = names \cup {"raw_responses", "processed_responses"}
                    /\ UNCHANGED <<cell, error, pc>>
               ELSE /\ pc' = "cell"
                    /\ Finish(11)
                    /\ UNCHANGED <<context_index, retrievals_data, responses, item>>
            /\ query_df' = WriteToCopy(query_df, sample_query_df')
            /\ UNCHANGED <<inputs, database_df, database_centroid, query_centroid,
                           num_retrieved_documents, precision_runs, attempt_number, outcome,
                           result>>

----------------------------------------------------------------------------
(* Merge, ranking metrics, schema *)

MergeCell ==
    /\ Ready(12)
    /\ IF Reads(12) \subseteq names
       THEN /\ LET openai_evaluations_df ==
                       RenameColumns(SelectColumns(evaluations_parquet,
                                                   {"text", "relevance_0", "relevance_1"}),
                                     [relevance_0 |-> "openai_relevance_0",
                                      relevance_1 |-> "openai_relevance_1"])
               IN  query_df' = Merge(query_df, openai_evaluations_df, "text")
            /\ Finish(12)
            /\ UNCHANGED <<inputs, database_df, sample_query_df, database_centroid,
                           query_centroid, num_retrieved_documents, precision_runs, calls>>
       ELSE Fail("NameError")

PrecisionColumn(k) == CASE k = 1 -> "openai_precision@1" [] k = 2 -> "openai_precision@2"

IsLabelled(x) == IF x # None THEN 1 ELSE 0

IsNotIrrelevant(x) == IF x # "irrelevant" THEN 1 ELSE 0

(* int(x == "relevant") *)
IsRelevant(x) == IF x = "relevant" THEN 1 ELSE 0

Overwrite(acc, x) == x

(* num_relevant_documents_array += ... , element by element *)
Accumulate(acc, x) == acc + x

QuotientByTotal(count, k) == Frac(count, 2)

(* num_relevant_documents_array / num_retrieved_documents, element by element *)
Quotient(count, k) == Frac(count, k)

(* the frame and the counts after the loop body has run for the context *)
(* indices 0 .. i-1 of range(0, n)                                       *)
RECURSIVE PrecisionLoop(_, _)
PrecisionLoop(df, i) ==
    IF i = 0
    THEN [df |-> df, array |-> [r \in DOMAIN df.rows |-> 0]]
    ELSE LET before == PrecisionLoop(df, i - 1)
             retrieved_context_index == i - 1
             k == retrieved_context_index + 1
             array == [r \in DOMAIN df.rows |->
                          Accumulate(before.array[r],
                                     IsRelevant(before.df.rows[r][
                                         RelevanceColumn(retrieved_context_index)]))]
         IN  [df |-> SetColumnFromSeries(before.df, PrecisionColumn(k),
                                         [r \in DOMAIN array |-> Quotient(array[r], k)]),
              array |-> array]

LastIndex(n) == n - 1

(* the value the loop body last assigned to num_retrieved_documents when  *)
(* the loop over range(0, n) ran, n > 0: retrieved_context_index + 1       *)
LastLoopValue(n) == (n - 1) + 1

(* the statements of the precision cell *)
PrecisionStatements ==
    /\ query_df' = PrecisionLoop(query_df, num_retrieved_documents).df
    /\ num_retrieved_documents' =
           IF num_retrieved_documents > 0
           THEN LastLoopValue(num_retrieved_documents) ELSE num_retrieved_documents
    /\ precision_runs' = precision_runs + 1
    /\ UNCHANGED <<inputs, database_df, sample_query_df, database_centroid,
                   query_centroid, calls>>

PrecisionCell ==
    /\ Ready(13)
    /\ IF Reads(13) \subseteq names
       THEN /\ PrecisionStatements
            /\ Finish(13)
       ELSE /\ error' = "NameError"
            /\ names' = IF {"np", "query_df"} \subseteq names
                        THEN names \cup {"num_relevant_documents_array"} ELSE names
            /\ UNCHANGED <<cell, inputs, frames, calls>>

UncenteredVector(df) == Column(df, "text_vector")

(* query_df["centered_text_vector"].copy() *)
ResponseVector(df) == Column(df, "centered_text_vector")

(* the user runs the precision cell again before going on to the next cell *)
RerunPrecisionCell ==
    /\ cell = 14
    /\ error = NoError
    /\ pc = "cell"
    /\ precision_runs \in 1..(MaxRuns - 1)
    /\ PrecisionStatements
    /\ UNCHANGED <<cell, error, names>>

SchemaCell ==
    /\ Ready(14)
    /\ IF Reads(14) \subseteq names
       THEN /\ query_df' = SetColumn(query_df, "response_vector", ResponseVector(query_df))
            /\ Finish(14)
            /\ UNCHANGED <<inputs, database_df, sample_query_df, database_centroid,
                           query_centroid, num_retrieved_documents, precision_runs, calls>>
       ELSE Fail("NameError")

----------------------------------------------------------------------------
Next ==
    \/ PlainCell
    \/ SkipCell
    \/ LoadDatabaseCell
    \/ LoadQueryCell
    \/ CenteringCell
    \/ EvaluationCellBegin
    \/ ForItem
    \/ Attempt
    \/ Backoff
    \/ AppendResponse
    \/ Propagate
    \/ EndOfItems
    \/ MergeCell
    \/ PrecisionCell
    \/ RerunPrecisionCell
    \/ SchemaCell

Spec == Init /\ [][Next]_vars
SpecRanking == InitRanking /\ [][Next]_vars
SpecCentering == InitCentering /\ [][Next]_vars
SpecParse == InitParse /\ [][Next]_vars
SpecParseList == InitParseList /\ [][Next]_vars
SpecTables == InitTables /\ [][Next]_vars

(* every API attempt and every backoff wait completes, and the interpreter *)
(* goes on to the next statement                                           *)
LiveSpec ==
    /\ Spec
    /\ WF_vars(ForItem)
    /\ WF_vars(Attempt)
    /\ WF_vars(Backoff)
    /\ WF_vars(AppendResponse)
    /\ WF_vars(Propagate)
    /\ WF_vars(EndOfItems)

----------------------------------------------------------------------------
(* Properties *)

PrecisionCellDone == cell > 13
RelevantAmongFirst(row, k) ==
    Cardinality({j \in 0..(k - 1) : row[RelevanceColumn(j)] = "relevant"})

(* C1: once the precision cell has run, every query row has, for k = 1 and *)
(* k = 2, openai_precision@k = (number of 'relevant' among its first k     *)
(* relevance labels) / k.                                                  *)
C1_PrecisionAtK ==
    PrecisionCellDone =>
        \A r \in DOMAIN query_df.rows : \A k \in {1, 2} :
            query_df.rows[r][PrecisionColumn(k)] =
                Frac(RelevantAmongFirst(query_df.rows[r], k), k)

(* the example of the specification: [relevant, irrelevant] gives 1.0 and 0.5 *)
C1_Witness ==
    /\ PrecisionCellDone
    /\ \E r \in DOMAIN query_df.rows :
        /\ query_df.rows[r]["openai_relevance_0"] = "relevant"
        /\ query_df.rows[r]["openai_relevance_1"] = "irrelevant"
        /\ query_df.rows[r]["openai_precision@1"] = <<1, 1>>
        /\ query_df.rows[r]["openai_precision@2"] = <<1, 2>>

EvaluationCellDone == cell > 11 /\ ~skipBang

(* C2 as stated: the label of a response is the mapped label when the     *)
(* response is "0" or "1" inside optional whitespace, None for every      *)
(* other string.                                                          *)
OnlyBareDigit(s) ==
    IF Strip(s) = <<"0">> THEN "irrelevant"
    ELSE IF Strip(s) = <<"1">> THEN "relevant"
    ELSE None

C2_Original ==
    EvaluationCellDone =>
        \A i \in DOMAIN responses :
            sample_query_df.rows[i]["openai_relevance_1"] = OnlyBareDigit(responses[i])

(* t is a run of zeros, each optionally followed by one underscore: (0_?)* *)
RECURSIVE ZeroRun(_)
ZeroRun(t) ==
    IF t = <<>> THEN TRUE
    ELSE IF t[1] # "0" THEN FALSE
    ELSE \/ ZeroRun(Tail(t))
         \/ Len(t) >= 2 /\ t[2] = "_" /\ ZeroRun(Tail(Tail(t)))

(* t is a decimal literal of value d (d a digit): zeros, then the digit d *)
LiteralOf(t, d) == t # <<>> /\ t[Len(t)] = d /\ ZeroRun(SubSeq(t, 1, Len(t) - 1))

IntegerLiteralLabel(s) ==
    LET t == Strip(s)
        sign == IF t # <<>> /\ t[1] \in {"+", "-"} THEN t[1] ELSE ""
        body == IF sign = "" THEN t ELSE Tail(t)
    IN  IF LiteralOf(body, "1") /\ sign # "-" THEN "relevant"
        ELSE IF LiteralOf(body, "0") THEN "irrelevant"
        ELSE None

(* C2, amended: the label of a response is the mapped label exactly when   *)
(* the response, stripped of surrounding whitespace, is an integer literal *)
(* of value 0 or 1 (an optional sign, leading zeros and single underscores *)
(* between digits are accepted), and None for every other string.          *)
C2_IntegerLiteral ==
    EvaluationCellDone =>
        \A i \in DOMAIN responses :
            sample_query_df.rows[i]["openai_relevance_1"] = IntegerLiteralLabel(responses[i])

C2_Witness ==
    /\ EvaluationCellDone
    /\ \E i \in DOMAIN responses :
        /\ responses[i] = <<"0", "1">>
        /\ sample_query_df.rows[i]["openai_relevance_1"] = "relevant"

Exhausted == pc = "raised" /\ outcome.kind = "raise" /\ outcome.exc # "KeyboardInterrupt"

(* C3 as stated: when the attempts are exhausted the caller receives the *)
(* exception of the last attempt itself.                                 *)
C3_Original == Exhausted => result.kind = "raise" /\ result.exc = outcome.exc

(* C3, amended: when the attempts are exhausted the caller receives a     *)
(* RetryError that wraps the last (sixth) attempt, whose exception is the *)
(* one the API call of that attempt raised.                               *)
C3_RetryErrorWrapsLast ==
    Exhausted =>
        /\ result.kind = "raise"
        /\ result.exc = "RetryError"
        /\ result.last_attempt = outcome
        /\ outcome.at = 6

C3_Witness ==
    /\ error = "RetryError"
    /\ result.last_attempt.exc = "RateLimitError"
    /\ result.last_attempt.at = 6

(* C4: one call of evaluate_query_and_retrieved_context makes at most 6 *)
(* API attempts; there is never a seventh.                              *)
C4_AtMostSixAttempts == attempt_number <= 6 /\ outcome.at <= 6

C4_Witness == pc = "raised" /\ outcome.at = 6 /\ attempt_number = 6

MeanIsZero(df) ==
    LET col == Column(df, "centered_text_vector") IN
    col # <<>> /\ IsZeroVec(VecDivInt(VecSum(col), Len(col)))

(* C5: after the centering cell the centered_text_vector column of         *)
(* database_df has mean zero, and so has that of query_df as long as the   *)
(* centering cell is the last cell that changed query_df.                  *)
C5_CenteredMeanZero ==
    /\ cell > 10 => MeanIsZero(database_df)
    /\ cell \in {11, 12} => MeanIsZero(query_df)

C5_Witness ==
    /\ cell = 11
    /\ pc = "cell"
    /\ database_centroid[1] = <<1, 2>>
    /\ query_centroid[1] = <<3, 2>>
    /\ \E r \in DOMAIN database_df.rows :
           database_df.rows[r]["centered_text_vector"][1] = <<-1, 2>>
    /\ \E r \in DOMAIN query_df.rows :
           query_df.rows[r]["centered_text_vector"][1] = <<1, 2>>

(* C6 as stated: a run that skips the cells marked with the emoji never *)
(* has a failing cell.                                                  *)
C6_SkippingRunsClean == skipBang => error = NoError

(* C7: once the precision cell has run, openai_precision@2 of a row is    *)
(* greater than zero if and only if one of its two labels is 'relevant'.  *)
C7_PositiveIffRelevant ==
    PrecisionCellDone =>
        \A r \in DOMAIN query_df.rows :
            (query_df.rows[r]["openai_precision@2"][1] > 0)
                <=> \E j \in {0, 1} : query_df.rows[r][RelevanceColumn(j)] = "relevant"

C7_Witness ==
    /\ PrecisionCellDone
    /\ \E r \in DOMAIN query_df.rows :
        /\ query_df.rows[r]["openai_relevance_0"] = None
        /\ query_df.rows[r]["openai_relevance_1"] = "relevant"
        /\ query_df.rows[r]["openai_precision@2"] = <<1, 2>>
    /\ \E r \in DOMAIN query_df.rows :
        /\ query_df.rows[r]["openai_relevance_0"] = None
        /\ query_df.rows[r]["openai_relevance_1"] = "irrelevant"
        /\ query_df.rows[r]["openai_precision@2"] = <<0, 1>>

C9_FirstSuccessReturns ==
    /\ outcome.kind = "ok" =>
          /\ pc \in {"returned", "for", "cell"}
          /\ result.kind = "return"
          /\ result.content = outcome.content
    /\ (pc = "sleep" \/ (pc = "attempt" /\ attempt_number > 1)) => outcome.kind = "raise"

C9_Witness ==
    /\ pc = "returned"
    /\ outcome.at = 3
    /\ result.content = <<"0">>

InCall == pc \in {"attempt", "sleep"}
CallEnded == pc \in {"returned", "raised"}
LoopStarted == pc = "for" /\ item = 1 /\ error = NoError
LoopEnded == (pc = "for" /\ item > Len(retrievals_data)) \/ pc = "raised" \/ pc = "cell"

(* C10: every call of evaluate_query_and_retrieved_context ends, by a   *)
(* return or by an exception, and so does every evaluate_retrievals.    *)
C10_Terminates == (InCall ~> CallEnded) /\ (LoopStarted ~> LoopEnded)

C10_Witness ==
    /\ pc = "for"
    /\ item > Len(retrievals_data)
    /\ Len(responses) = 2
    /\ context_index = 1

CallErrors == {"RetryError", "KeyboardInterrupt"}

(* C11: an exception of the wrapped call goes out of evaluate_retrievals  *)
(* and stops the cell: the next step sets the error of the run and leaves *)
(* the lists and frames alone, nothing runs after it, the column of the   *)
(* context index in progress is missing from sample_query_df and the      *)
(* columns of the earlier context indices are there.                      *)
C11_FailurePropagates ==
    /\ [](error \in CallErrors =>
            /\ pc = "raised"
            /\ error = result.exc
            /\ RelevanceColumn(context_index) \notin sample_query_df.columns
            /\ \A c \in 0..(context_index - 1) :
                   RelevanceColumn(c) \in sample_query_df.columns)
    /\ [][pc = "raised" =>
            /\ error = NoError
            /\ error' = result.exc
            /\ UNCHANGED <<sample_query_df, query_df, responses, item, context_index, cell>>]_vars
    /\ [][error = NoError]_vars

C11_Witness ==
    /\ error = "RetryError"
    /\ context_index = 1
    /\ item = 2
    /\ Len(responses) = 1
    /\ "openai_relevance_0" \in sample_query_df.columns
    /\ "openai_relevance_1" \notin sample_query_df.columns

(* C12: process_binary_responses never raises and gives one label for each *)
(* response, in place: the label at i is the one the response at i gets    *)
(* when parsed alone, an unparseable response becomes None where it stands, *)
(* so the list always fits the rows of the sample as a column.             *)
C12_ParsesInPlace ==
    LET processed_responses == process_binary_responses(responses, binary_to_string_map)
    IN  /\ DOMAIN processed_responses = DOMAIN responses
        /\ \A i \in DOMAIN responses :
               /\ processed_responses[i] \in Labels
               /\ <<processed_responses[i]>> =
                      process_binary_responses(<<responses[i]>>, binary_to_string_map)
               /\ processed_responses[i] = IntegerLiteralLabel(responses[i])
        /\ error # "ValueError"
        /\ EvaluationCellDone =>
               Column(sample_query_df, RelevanceColumn(1)) = processed_responses

C12_Witness ==
    /\ EvaluationCellDone
    /\ responses = << <<"y">>, <<"1">> >>
    /\ Column(sample_query_df, RelevanceColumn(1)) = <<None, "relevant">>
    /\ Column(sample_query_df, RelevanceColumn(0)) = <<"relevant", None>>

(* the relevant count behind openai_precision@k, and what the context j adds to it *)
RelevantCount(row, k) == (row[PrecisionColumn(k)][1] * k) \div row[PrecisionColumn(k)][2]
Contribution(row, j) == RelevantCount(row, j + 1) - (IF j = 0 THEN 0 ELSE RelevantCount(row, j))

(* C13: a context adds 1 to the relevant count exactly when its label is   *)
(* 'relevant' and 0 when it is 'irrelevant' or None; every row gets a      *)
(* number as precision@k, and the precision cell of a run that ran the     *)
(* cells before it does not fail.                                          *)
C13_OnlyRelevantCounts ==
    /\ PrecisionCellDone =>
           \A r \in DOMAIN query_df.rows : \A j \in {0, 1} :
               /\ query_df.rows[r][PrecisionColumn(j + 1)] \in (0..(j + 1)) \X {1, 2}
               /\ Contribution(query_df.rows[r], j) =
                      (IF query_df.rows[r][RelevanceColumn(j)] = "relevant" THEN 1 ELSE 0)
    /\ (cell = 13 /\ ~skipBang) => error = NoError

C13_Witness ==
    /\ PrecisionCellDone
    /\ \E r \in DOMAIN query_df.rows :
        /\ query_df.rows[r]["openai_relevance_0"] = None
        /\ query_df.rows[r]["openai_relevance_1"] = None
        /\ query_df.rows[r]["openai_precision@1"] = <<0, 1>>
        /\ query_df.rows[r]["openai_precision@2"] = <<0, 1>>
    /\ \E r \in DOMAIN query_df.rows :
        /\ query_df.rows[r]["openai_relevance_0"] = "irrelevant"
        /\ query_df.rows[r]["openai_relevance_1"] = "relevant"
        /\ query_df.rows[r]["openai_precision@1"] = <<0, 1>>
        /\ query_df.rows[r]["openai_precision@2"] = <<1, 2>>

(* the sum of coordinate d of the text_vector of the first n rows of df *)
RECURSIVE SumOfCoordinate(_, _, _)
SumOfCoordinate(df, d, n) ==
    IF n = 0 THEN 0
    ELSE SumOfCoordinate(df, d, n - 1) + df.rows[n]["text_vector"][d][1]

(* in every row, text_vector - centered_text_vector, taken n times (n the  *)
(* number of rows of df), is the sum of the text_vector column of df, and  *)
(* centroid is the vector that was subtracted                              *)
ShiftedByOwnMean(df, centroid) ==
    LET n == Len(df.rows) IN
    \A r \in DOMAIN df.rows : \A d \in DOMAIN df.rows[r]["text_vector"] :
        LET t == df.rows[r]["text_vector"][d]
            c == df.rows[r]["centered_text_vector"][d]
        IN  /\ t[2] = 1 /\ c[2] > 0
            /\ n * (t[1] * c[2] - c[1]) = c[2] * SumOfCoordinate(df, d, n)
            /\ centroid[d][2] > 0
            /\ n * centroid[d][1] = centroid[d][2] * SumOfCoordinate(df, d, n)

(* C14: after the centering cell every row of database_df is its           *)
(* text_vector minus the mean text_vector of database_df, and every row of *)
(* query_df (until the merge replaces query_df) its text_vector minus the  *)
(* mean text_vector of query_df; each centroid is the mean of its own      *)
(* dataframe.                                                              *)
C14_OwnCentroid ==
    /\ cell > 10 => ShiftedByOwnMean(database_df, database_centroid)
    /\ cell \in {11, 12} => ShiftedByOwnMean(query_df, query_centroid)

C14_Witness ==
    /\ cell = 11
    /\ pc = "cell"
    /\ database_centroid = << <<7, 2>>, <<1, 1>> >>
    /\ query_centroid = << <<1, 1>>, <<2, 1>> >>
    /\ \E r \in DOMAIN query_df.rows :
           /\ query_df.rows[r]["text_vector"] = << <<0, 1>>, <<2, 1>> >>
           /\ query_df.rows[r]["centered_text_vector"] = << <<-1, 1>>, <<0, 1>> >>
    /\ \E r \in DOMAIN database_df.rows :
           /\ database_df.rows[r]["text_vector"] = << <<3, 1>>, <<1, 1>> >>
           /\ database_df.rows[r]["centered_text_vector"] = << <<-1, 2>>, <<0, 1>> >>

InEvaluationLoop == cell = 11 /\ pc # "cell"

(* C15 as stated: in the sample loop the pairs handed to the evaluation    *)
(* are, row by row, the (text, context_text_c) pairs of sample_query_df,   *)
(* also when two rows have the same query text; the list of labels fits    *)
(* the rows, and the label written in row i is the parsed response of the  *)
(* pair of row i.                                                          *)
C15_RowGetsOwnEvaluation ==
    /\ InEvaluationLoop =>
           /\ Len(retrievals_data) = Len(sample_query_df.rows)
           /\ \A i \in DOMAIN retrievals_data :
                  retrievals_data[i] =
                      <<sample_query_df.rows[i]["text"],
                        sample_query_df.rows[i][ContextColumn(context_index)]>>
    /\ error # "ValueError"
    /\ EvaluationCellDone =>
           /\ Len(responses) = Len(sample_query_df.rows)
           /\ \A i \in DOMAIN responses :
                  sample_query_df.rows[i][RelevanceColumn(1)] =
                      ProcessBinaryResponse(responses[i], binary_to_string_map)

PrecisionColumns == {"openai_precision@1", "openai_precision@2"}

(* C16: when the precision cell has run, both precision columns are there  *)
(* and num_retrieved_documents is 2 again; running the cell once more      *)
(* changes neither query_df nor num_retrieved_documents.                   *)
C16_RerunChangesNothing ==
    /\ [](PrecisionCellDone =>
             /\ num_retrieved_documents = 2
             /\ PrecisionColumns \subseteq query_df.columns)
    /\ [][(precision_runs >= 1 /\ precision_runs' = precision_runs + 1) =>
             /\ query_df' = query_df
             /\ num_retrieved_documents' = num_retrieved_documents
             /\ num_retrieved_documents' = 2]_vars

C16_Witness ==
    /\ precision_runs = MaxRuns
    /\ num_retrieved_documents = 2
    /\ \E r \in DOMAIN query_df.rows :
        /\ query_df.rows[r]["openai_relevance_0"] = "relevant"
        /\ query_df.rows[r]["openai_relevance_1"] = "relevant"
        /\ query_df.rows[r]["openai_precision@1"] = <<1, 1>>
        /\ query_df.rows[r]["openai_precision@2"] = <<1, 1>>

MergeCellDone == cell > 12

(* C17 as stated: after the merge query_df has the rows of the downloaded  *)
(* query table, once each and in the same order, with the two relevance    *)
(* columns added, and its centered_text_vector column still has mean zero. *)
C17_MergeOnlyAddsColumns ==
    MergeCellDone =>
        /\ {"openai_relevance_0", "openai_relevance_1"} \subseteq query_df.columns
        /\ Len(query_df.rows) = Len(query_parquet.rows)
        /\ \A i \in DOMAIN query_df.rows :
               /\ query_df.rows[i]["text"] = query_parquet.rows[i]["query_text"]
               /\ query_df.rows[i]["text_vector"] = query_parquet.rows[i]["query_embedding"]
        /\ MeanIsZero(query_df)

(* the position in the docstore of the first document with the text t *)
FirstWithText(t) ==
    CHOOSE i \in DOMAIN docstore :
        /\ docstore[i].text = t
        /\ \A j \in 1..(i - 1) : docstore[j].text # t

(* C20: once loaded, database_df has one row for every distinct text of    *)
(* the docstore, in the order of first appearance; the row of a text       *)
(* stands for the first document with that text and its text_vector is the *)
(* embedding the vector store keeps under the id of that document.         *)
C20_OneRowPerText ==
    cell > 8 =>
        /\ {database_df.rows[r]["text"] : r \in DOMAIN database_df.rows} =
               {docstore[i].text : i \in DOMAIN docstore}
        /\ \A r1, r2 \in DOMAIN database_df.rows :
               r1 < r2 =>
                   /\ database_df.rows[r1]["text"] # database_df.rows[r2]["text"]
                   /\ FirstWithText(database_df.rows[r1]["text"]) <
                          FirstWithText(database_df.rows[r2]["text"])
        /\ \A r \in DOMAIN database_df.rows :
               LET first == FirstWithText(database_df.rows[r]["text"]) IN
               /\ database_df.index[r] = first - 1
               /\ database_df.rows[r]["text_vector"] =
                      NpArray(vector_store[docstore[first].doc_id])

C20_Witness ==
    /\ cell > 8
    /\ Len(docstore) = 2
    /\ docstore[1].text = docstore[2].text
    /\ docstore[1].doc_id = 2
    /\ Len(database_df.rows) = 1
    /\ database_df.rows[1]["text_vector"] = NpArray(vector_store[2])
    /\ vector_store[1] # vector_store[2]

RelevanceColumns == {"openai_relevance_0", "openai_relevance_1"}

(* C18: no step of the evaluation cell changes query_df, whatever the API  *)
(* does; query_df has no openai_relevance column before the merge cell has *)
(* run, and the merge cell is the step that adds them.                     *)
C18_SampleIsACopy ==
    /\ [][cell = 11 => query_df' = query_df]_vars
    /\ [](cell <= 12 => RelevanceColumns \cap query_df.columns = {})
    /\ [][(RelevanceColumns \cap query_df.columns) # (RelevanceColumns \cap query_df'.columns)
            => (cell = 12 /\ cell' = 13 /\ RelevanceColumns \subseteq query_df'.columns)]_vars

C18_Witness ==
    /\ cell = 12
    /\ ~skipBang
    /\ error = NoError
    /\ RelevanceColumns \subseteq sample_query_df.columns
    /\ RelevanceColumns \cap query_df.columns = {}
    /\ Len(query_df.rows) = 2
    /\ sample_query_df.rows[1]["openai_relevance_0"] = "relevant"
    /\ sample_query_df.rows[2]["openai_relevance_0"] = "irrelevant"

(* the columns the two schemas name *)
QuerySchemaColumns ==
    {"text", "centered_text_vector", "response", "response_vector", "context_text_0",
     "context_text_1", "context_similarity_0", "context_similarity_1", "openai_relevance_0",
     "openai_relevance_1", "openai_precision@1", "openai_precision@2", "user_feedback"}
DatabaseSchemaColumns == {"text", "centered_text_vector"}

(* C19: when a run of all the cells in order comes to the px.Dataset cell, *)
(* and from then on, query_df has every column query_schema names,         *)
(* database_df every column database_schema names, and in every row of     *)
(* query_df response_vector is the centered_text_vector of that row.       *)
C19_SchemaColumnsExist ==
    (cell >= 15 /\ ~skipBang) =>
        /\ QuerySchemaColumns \subseteq query_df.columns
        /\ DatabaseSchemaColumns \subseteq database_df.columns
        /\ \A r \in DOMAIN query_df.rows :
               query_df.rows[r]["response_vector"] = query_df.rows[r]["centered_text_vector"]

C19_Witness ==
    /\ cell = 15
    /\ ~skipBang
    /\ error = NoError
    /\ Len(query_df.rows) = 2
    /\ query_df.rows[1]["text_vector"] = << <<1, 1>>, <<1, 1>> >>
    /\ query_df.rows[1]["response_vector"] = << <<-1, 2>>, <<0, 1>> >>
    /\ query_df.rows[2]["response_vector"] = << <<1, 2>>, <<0, 1>> >>

====
